---- MODULE Spec2Model ----
(***************************************************************************)
(* The score store of the fantasy-league tracker (src/main.py,             *)
(* src/models.py): the scores table, the three handlers that write it      *)
(* (create_scores_bulk, update_score, delete_score) and the running total  *)
(* overall_points they maintain.                                           *)
(***************************************************************************)
EXTENDS Integers, FiniteSets, Sequences, TLC

VARIABLES
    players,   \* the players table: the set of Player ids
    scores,    \* the scores table as committed: a set of Score rows
    last,      \* the last request served: its arguments, its outcome and the
               \* table it found (observation only)
    sess,      \* the database session of each request in flight
    lock,      \* the request holding the database's write lock, or 0
    txn,       \* the table as the lock holder's open transaction has it
    version    \* the number of transactions committed (observation only)

vars == <<players, scores, last, sess, lock, txn, version>>
seqvars == <<sess, lock, txn, version>>

----------------------------------------------------------------------------
(* Bounds and input sets *)

\* Gameweeks already uploaded when the requests under study arrive.
SeasonWeeks == 2

PlayerIds == {1, 2}

\* Form values a request may carry; 0 is outside the gameweek range and
\* SeasonWeeks + 1 is a gameweek nobody has a score for yet.
GameweekInputs == 0..(SeasonWeeks + 1)
PointInputs == {0, 2}
CostInputs == {0, 1}

\* A bulk form field is absent/empty (<<>>) or carries one value (<<v>>).
PointFields == {<<>>} \cup {<<v>> : v \in PointInputs}
CostFields == {<<>>} \cup {<<v>> : v \in CostInputs}
FormEntries == [week_points : PointFields, week_cost : CostFields]
Forms == [PlayerIds -> FormEntries]

\* What the season's uploads carried for one player and gameweek: nothing,
\* 2 points at no cost, or no points at a cost of 1.
SeasonEntries ==
    {[week_points |-> <<>>, week_cost |-> <<>>],
     [week_points |-> <<2>>, week_cost |-> <<0>>],
     [week_points |-> <<0>>, week_cost |-> <<1>>]}
SeasonForms == [PlayerIds -> SeasonEntries]

----------------------------------------------------------------------------
(* models.py: the Score row and its check constraints *)

GAMEWEEK_MIN == 1
GAMEWEEK_MAX == 38

Score(id, player_id, gameweek, week_points, week_cost, overall_points) ==
    [id |-> id, player_id |-> player_id, gameweek |-> gameweek,
     week_points |-> week_points, week_cost |-> week_cost,
     overall_points |-> overall_points]

CheckConstraints(r) ==
    /\ r.gameweek >= GAMEWEEK_MIN /\ r.gameweek <= GAMEWEEK_MAX
    /\ r.week_points >= 0
    /\ r.week_cost >= 0
    /\ r.overall_points >= 0

----------------------------------------------------------------------------
(* Helpers shared by the handlers *)

Ids(S) == {s.id : s \in S}

Get(S, id) == CHOOSE s \in S : s.id = id

\* sum((s.week_points - s.week_cost) for s in rows)
RECURSIVE SumNet(_)
SumNet(T) ==
    IF T = {} THEN 0
    ELSE LET s == CHOOSE x \in T : TRUE
         IN (s.week_points - s.week_cost) + SumNet(T \ {s})

\* The rowid SQLite gives the next inserted row: one more than the largest.
NewId(S) ==
    IF S = {} THEN 1
    ELSE (CHOOSE i \in Ids(S) : \A j \in Ids(S) : j <= i) + 1

\* The table with row r written in place of the row of the same id.
Put(S, r) == {s \in S : s.id # r.id} \cup {r}

----------------------------------------------------------------------------
(* update_score *)

\* A variant of other_scores that does not leave out the edited row.
other_scores_with_edited(S, score_id, player_id, gameweek) ==
    {s \in S : /\ s.player_id = player_id
               /\ s.gameweek <= gameweek}

other_scores(S, score_id, player_id, gameweek) ==
    {s \in S : /\ s.player_id = player_id
               /\ s.gameweek <= gameweek
               /\ s.id # score_id}

total_points(S, score_id, player_id, gameweek, week_points, week_cost) ==
    SumNet(other_scores(S, score_id, player_id, gameweek))
        + (week_points - week_cost)

\* A variant of subsequent_scores that takes the later rows of every player.
subsequent_scores_any_player(S, player_id, gameweek) ==
    {s \in S : s.gameweek > gameweek}

subsequent_scores(S, player_id, gameweek) ==
    {s \in S : s.player_id = player_id /\ s.gameweek > gameweek}

\* A variant of scores_up_to_week that stops before the week itself.
scores_before_week(S, player_id, gameweek) ==
    {s \in S : s.player_id = player_id /\ s.gameweek < gameweek}

scores_up_to_week(S, player_id, gameweek) ==
    {s \in S : s.player_id = player_id /\ s.gameweek <= gameweek}

subsequent_total(S, player_id, subsequent_score) ==
    SumNet(scores_up_to_week(S, player_id, subsequent_score.gameweek))

\* The loop over subsequent_scores, in ascending gameweek order; each pass
\* reads the table as the session sees it, the earlier writes included.
RECURSIVE RecalculateSubsequent(_, _, _)
RecalculateSubsequent(S, player_id, todo) ==
    IF todo = {} THEN S
    ELSE LET id == CHOOSE i \in todo :
                     \A j \in todo : Get(S, i).gameweek <= Get(S, j).gameweek
             sub == Get(S, id)
             new == [sub EXCEPT
                       !.overall_points = subsequent_total(S, player_id, sub)]
         IN RecalculateSubsequent(Put(S, new), player_id, todo \ {id})

\* The table the session holds when it reaches commit.
UpdateScoreView(S, score_id, player_id, gameweek, week_points, week_cost) ==
    LET edited == Score(score_id, player_id, gameweek, week_points, week_cost,
                        total_points(S, score_id, player_id, gameweek,
                                     week_points, week_cost))
        V == Put(S, edited)
    IN RecalculateSubsequent(V, player_id,
                             Ids(subsequent_scores(V, player_id, gameweek)))

\* The rows the request writes: the edited one and the subsequent ones.
UpdateScoreWrites(S, score_id, player_id, gameweek) ==
    {score_id} \cup Ids(subsequent_scores(S, player_id, gameweek))

\* Every written row passes the table's check constraints.
UpdateScoreAccepted(S, score_id, player_id, gameweek, week_points, week_cost) ==
    LET V == UpdateScoreView(S, score_id, player_id, gameweek,
                             week_points, week_cost)
        W == UpdateScoreWrites(V, score_id, player_id, gameweek)
    IN \A s \in V : s.id \in W => CheckConstraints(s)

\* The committed table after the request: unchanged on 404 or on a rejected
\* write (the session is closed without commit).
UpdateScoreResult(S, score_id, player_id, gameweek, week_points, week_cost) ==
    IF score_id \notin Ids(S) THEN S
    ELSE IF UpdateScoreAccepted(S, score_id, player_id, gameweek,
                                week_points, week_cost)
         THEN UpdateScoreView(S, score_id, player_id, gameweek,
                              week_points, week_cost)
         ELSE S

\* The last request: the handler, its arguments, whether it answered with
\* its redirect (ok) or failed (404, or a rejected write), and the table as
\* it was committed when the request arrived.
Outcome(op, ok, args, pre) == [op |-> op, ok |-> ok, args |-> args, pre |-> pre]

update_score(score_id, player_id, gameweek, week_points, week_cost) ==
    LET found == score_id \in Ids(scores)
        ok == found /\ UpdateScoreAccepted(scores, score_id, player_id,
                                           gameweek, week_points, week_cost)
    IN /\ scores' = UpdateScoreResult(scores, score_id, player_id, gameweek,
                                      week_points, week_cost)
       /\ last' = Outcome("update", ok,
                          [score_id |-> score_id, player_id |-> player_id,
                           gameweek |-> gameweek, week_points |-> week_points,
                           week_cost |-> week_cost],
                          scores)
       /\ UNCHANGED <<players, seqvars>>

----------------------------------------------------------------------------
(* delete_score, delete_score_form *)

\* A variant of the delete that recalculates the later rows of the player.
DeleteScoreRecalculating(S, score_id) ==
    IF score_id \notin Ids(S) THEN S
    ELSE LET gone == Get(S, score_id)
             T == S \ {gone}
         IN RecalculateSubsequent(
                T, gone.player_id,
                Ids(subsequent_scores(T, gone.player_id, gone.gameweek)))

\* The committed table after the request: unchanged on 404.
DeleteScoreResult(S, score_id) ==
    IF score_id \notin Ids(S) THEN S
    ELSE S \ {Get(S, score_id)}

delete_score(score_id) ==
    /\ scores' = DeleteScoreResult(scores, score_id)
    /\ last' = Outcome("delete", score_id \in Ids(scores),
                       [score_id |-> score_id], scores)
    /\ UNCHANGED <<players, seqvars>>

----------------------------------------------------------------------------
(* create_scores_bulk *)

\* `if not week_points or not week_cost: continue`
Skipped(entry) == entry.week_points = <<>> \/ entry.week_cost = <<>>

\* The rows `existing_score = ... .first()` may return for a player.
MatchingScores(S, player_id, gameweek) ==
    {s \in S : s.player_id = player_id /\ s.gameweek = gameweek}

\* The choices of .first() for every player: a matching row's id, or 0 when
\* the query returns no row.  The query has no ORDER BY.
FirstChoices(S, gameweek) ==
    {f \in [PlayerIds -> Ids(S) \cup {0}] :
        \A p \in PlayerIds :
            IF MatchingScores(S, p, gameweek) = {}
            THEN f[p] = 0
            ELSE f[p] \in Ids(MatchingScores(S, p, gameweek))}

existing_scores(S, player_id) == {s \in S : s.player_id = player_id}

\* A variant of the overwrite that also moves the row's running total.
OverwriteRecalculating(existing_score, week_points, week_cost) ==
    [existing_score EXCEPT
       !.week_points = week_points,
       !.week_cost = week_cost,
       !.overall_points = @ - (existing_score.week_points
                                 - existing_score.week_cost)
                            + (week_points - week_cost)]

\* The `if existing_score:` branch.
OverwriteExisting(existing_score, week_points, week_cost) ==
    [existing_score EXCEPT !.week_points = week_points,
                           !.week_cost = week_cost]

\* The `else:` branch.
CreateScore(S, player_id, gameweek, week_points, week_cost) ==
    Score(NewId(S), player_id, gameweek, week_points, week_cost,
          SumNet(existing_scores(S, player_id)) + week_points - week_cost)

\* One pass of `for player in players`.
BulkPass(S, player_id, gameweek, entry, first) ==
    IF Skipped(entry) THEN S
    ELSE LET week_points == entry.week_points[1]
             week_cost == entry.week_cost[1]
         IN IF first # 0
            THEN Put(S, OverwriteExisting(Get(S, first),
                                          week_points, week_cost))
            ELSE S \cup {CreateScore(S, player_id, gameweek,
                                     week_points, week_cost)}

\* The whole loop, players in id order.
RECURSIVE BulkLoop(_, _, _, _, _)
BulkLoop(S, todo, gameweek, form, first) ==
    IF todo = {} THEN S
    ELSE LET p == CHOOSE x \in todo : \A y \in todo : x <= y
         IN BulkLoop(BulkPass(S, p, gameweek, form[p], first[p]),
                     todo \ {p}, gameweek, form, first)

BulkOverwritten(form, first) ==
    {first[p] : p \in {q \in PlayerIds : ~Skipped(form[q]) /\ first[q] # 0}}

BulkView(S, P, gameweek, form, first) == BulkLoop(S, P, gameweek, form, first)

BulkWrites(S, P, gameweek, form, first) ==
    (Ids(BulkView(S, P, gameweek, form, first)) \ Ids(S))
        \cup BulkOverwritten(form, first)

\* Every written row passes the table's check constraints.
BulkAccepted(S, P, gameweek, form, first) ==
    LET V == BulkView(S, P, gameweek, form, first)
        W == BulkWrites(S, P, gameweek, form, first)
    IN \A s \in V : s.id \in W => CheckConstraints(s)

BulkResult(S, P, gameweek, form, first) ==
    IF BulkAccepted(S, P, gameweek, form, first)
    THEN BulkView(S, P, gameweek, form, first)
    ELSE S

create_scores_bulk(gameweek, form, first) ==
    LET ok == BulkAccepted(scores, players, gameweek, form, first)
        V == BulkResult(scores, players, gameweek, form, first)
    IN /\ first \in FirstChoices(scores, gameweek)
       /\ scores' = V
       /\ last' = Outcome("bulk", ok,
                          [gameweek |-> gameweek, form |-> form,
                           first |-> first],
                          scores)
       /\ UNCHANGED <<players, seqvars>>

----------------------------------------------------------------------------
(* The store served one request at a time *)

\* The store after the uploads of the gameweeks of `order`, one after the
\* other, f[g] being the form submitted for gameweek g.  No row exists yet
\* for the gameweek being uploaded, so .first() finds nothing.
RECURSIVE SeasonStore(_, _)
SeasonStore(f, order) ==
    IF order = <<>> THEN {}
    ELSE LET g == order[Len(order)]
         IN BulkResult(SeasonStore(f, SubSeq(order, 1, Len(order) - 1)),
                       PlayerIds, g, f[g], [p \in PlayerIds |-> 0])

Ascending == [k \in 1..SeasonWeeks |-> k]
Descending == [k \in 1..SeasonWeeks |-> SeasonWeeks + 1 - k]

\* The season uploaded week after week.
AscendingStores ==
    {SeasonStore(f, Ascending) : f \in [1..SeasonWeeks -> SeasonForms]}

\* The season uploaded week after week, or from the last week back to the
\* first.
SeasonStores ==
    AscendingStores \cup
      {SeasonStore(f, Descending) : f \in [1..SeasonWeeks -> SeasonForms]}

\* Ids a request may name: every stored one and one that is absent.
IdInputs(S) == Ids(S) \cup {NewId(S)}

Requests == {1, 2}

NoArgs == [op |-> "none"]

\* A session before its request arrives: get_db has opened it, nothing is
\* loaded.
Idle == [pc |-> "idle", args |-> NoArgs, obj |-> {}, per |-> {}, new |-> {},
         todo |-> <<>>, seen |-> 0, wrote |-> {}, raced |-> FALSE]

Init ==
    /\ players = PlayerIds
    /\ scores \in SeasonStores
    /\ last = Outcome("none", TRUE, <<>>, scores)
    /\ sess = [r \in Requests |-> Idle]
    /\ lock = 0
    /\ txn = {}
    /\ version = 0

\* One request arrives after the season's uploads.
BulkRequest ==
    /\ last.op = "none"
    /\ \E gameweek \in GameweekInputs, form \in Forms :
          \E first \in FirstChoices(scores, gameweek) :
             create_scores_bulk(gameweek, form, first)

UpdateRequest ==
    /\ last.op = "none"
    /\ \E score_id \in IdInputs(scores), player_id \in PlayerIds,
          gameweek \in GameweekInputs,
          week_points \in PointInputs, week_cost \in CostInputs :
            update_score(score_id, player_id, gameweek, week_points, week_cost)

DeleteRequest ==
    /\ last.op = "none"
    /\ \E score_id \in IdInputs(scores) : delete_score(score_id)

Next == BulkRequest \/ UpdateRequest \/ DeleteRequest

Spec == Init /\ [][Next]_vars

----------------------------------------------------------------------------
(* The handlers statement by statement, each request in its own session    *)
(* (get_db), against a database that gives the write lock to one           *)
(* transaction at a time                                                   *)

\* A variant of View without the session's own transaction: every statement
\* reads the committed table.
ViewCommitted(r) == scores

\* The table a request's statements read: its own open transaction when it
\* holds the write lock, the committed table otherwise.
View(r) == IF lock = r THEN txn ELSE scores

\* The session's identity map: a row is loaded the first time a query
\* returns it; later queries hand back the object already held.
Load(s, rows) ==
    LET new == {x \in rows : x.id \notin Ids(s.obj)}
    IN [s EXCEPT !.obj = @ \cup new, !.per = @ \cup new]

Objects(s, ids) == {o \in s.obj : o.id \in ids}

\* The objects whose attributes differ from what the session last persisted.
Dirty(s) == {o \in s.obj : o # Get(s.per, o.id)}

\* UPDATE scores SET <the changed columns> WHERE id = o.id
Updated(row, o, was) ==
    [id |-> row.id,
     player_id |-> IF o.player_id # was.player_id
                   THEN o.player_id ELSE row.player_id,
     gameweek |-> IF o.gameweek # was.gameweek
                  THEN o.gameweek ELSE row.gameweek,
     week_points |-> IF o.week_points # was.week_points
                     THEN o.week_points ELSE row.week_points,
     week_cost |-> IF o.week_cost # was.week_cost
                   THEN o.week_cost ELSE row.week_cost,
     overall_points |-> IF o.overall_points # was.overall_points
                        THEN o.overall_points ELSE row.overall_points]

\* INSERT INTO scores: the session's pending new object gets its rowid.
Inserted(T, s) == {[n EXCEPT !.id = NewId(T)] : n \in s.new}

\* The table after the session's flush (the autoflush before a query, or
\* the flush of commit): the updates, then the insert.
Flushed(T, s) ==
    LET U == {IF x.id \in Ids(Dirty(s))
              THEN Updated(x, Get(s.obj, x.id), Get(s.per, x.id))
              ELSE x : x \in T}
    IN U \cup Inserted(U, s)

FlushWrites(T, s) == Ids(Dirty(s)) \cup Ids(Inserted(T, s))

\* Every row the flush writes passes the table's check constraints.
FlushAccepted(T, s) ==
    \A x \in Flushed(T, s) : x.id \in FlushWrites(T, s) => CheckConstraints(x)

SessionAfterFlush(T, s) ==
    [s EXCEPT !.obj = @ \cup Inserted(T, s),
              !.per = s.obj \cup Inserted(T, s),
              !.new = {},
              !.wrote = @ \cup FlushWrites(T, s)]

\* A flush that writes needs the lock.
NeedsLock(r) == Dirty(sess[r]) # {} \/ sess[r].new # {}
MayProceed(r) == NeedsLock(r) => lock \in {0, r}
HoldsAfterFlush(r) == NeedsLock(r) \/ lock = r

\* ORDER BY gameweek, as a sequence of ids.
RECURSIVE SortByGameweek(_)
SortByGameweek(rows) ==
    IF rows = {} THEN <<>>
    ELSE LET x == CHOOSE x \in rows :
                    \A y \in rows : \/ x.gameweek < y.gameweek
                                    \/ x.gameweek = y.gameweek /\ x.id <= y.id
         IN <<x.id>> \o SortByGameweek(rows \ {x})

\* The players the loop of create_scores_bulk does not skip, in id order.
RECURSIVE PlayersToWrite(_, _)
PlayersToWrite(P, form) ==
    IF P = {} THEN <<>>
    ELSE LET p == CHOOSE x \in P : \A y \in P : x <= y
         IN (IF Skipped(form[p]) THEN <<>> ELSE <<p>>)
                \o PlayersToWrite(P \ {p}, form)

\* A variant of RollbackTable in which what the session flushed stays.
RollbackKeepsFlushed(r) == View(r)

\* The committed table once a session is closed without commit.
RollbackTable(r) == scores

\* get_db's `finally: db.close()` after the handler raised: the open
\* transaction is rolled back and the lock released.
Rollback(r) ==
    /\ sess' = [sess EXCEPT ![r].pc = "failed",
                            ![r].raced = version # sess[r].seen]
    /\ scores' = RollbackTable(r)
    /\ lock' = IF lock = r THEN 0 ELSE lock
    /\ txn' = IF lock = r THEN {} ELSE txn
    /\ UNCHANGED <<players, last, version>>

\* The statement's autoflush went through: the session holds the lock if it
\* wrote, and goes on as s1.
Proceed(r, s1) ==
    /\ sess' = [sess EXCEPT ![r] = s1]
    /\ lock' = IF HoldsAfterFlush(r) THEN r ELSE lock
    /\ txn' = IF HoldsAfterFlush(r) THEN Flushed(View(r), sess[r]) ELSE txn
    /\ UNCHANGED <<players, scores, last, version>>

\* update_score: score = session.get(Score, score_id); 404 when there is
\* none.
TxnGet(r, a) ==
    /\ sess[r].pc = "idle"
    /\ a.op = "update"
    /\ IF a.score_id \in Ids(View(r))
       THEN sess' = [sess EXCEPT
                       ![r] = [Load(@, {Get(View(r), a.score_id)}) EXCEPT
                                 !.pc = "read", !.args = a, !.seen = version]]
       ELSE sess' = [sess EXCEPT ![r].pc = "failed", ![r].args = a,
                                 ![r].seen = version]
    /\ UNCHANGED <<players, scores, last, lock, txn, version>>

\* update_score: other_scores = ...; total_points = ...; the assignments to
\* score.
TxnRead(r) ==
    LET s == sess[r]
        a == s.args
        rows == other_scores(View(r), a.score_id, a.player_id, a.gameweek)
        s1 == Load(s, rows)
        total == SumNet(Objects(s1, Ids(rows)))
                     + (a.week_points - a.week_cost)
        edited == Score(a.score_id, a.player_id, a.gameweek,
                        a.week_points, a.week_cost, total)
    IN /\ s.pc = "read"
       /\ sess' = [sess EXCEPT ![r] = [s1 EXCEPT !.obj = Put(s1.obj, edited),
                                                 !.pc = "subsequent"]]
       /\ UNCHANGED <<players, scores, last, lock, txn, version>>

\* update_score: subsequent_scores = ... .all(), after the autoflush of the
\* edited row.
TxnSubsequent(r) ==
    LET s == sess[r]
        a == s.args
        T == Flushed(View(r), s)
        rows == subsequent_scores(T, a.player_id, a.gameweek)
        s1 == Load(SessionAfterFlush(View(r), s), rows)
        todo == SortByGameweek(rows)
    IN /\ s.pc = "subsequent"
       /\ MayProceed(r)
       /\ IF ~FlushAccepted(View(r), s)
          THEN Rollback(r)
          ELSE Proceed(r, [s1 EXCEPT !.todo = todo,
                                     !.pc = IF todo = <<>> THEN "commit"
                                            ELSE "loop"])

\* update_score: one pass of `for subsequent_score in subsequent_scores`.
TxnLoop(r) ==
    LET s == sess[r]
        a == s.args
        T == Flushed(View(r), s)
        sub == Get(s.obj, Head(s.todo))
        rows == scores_up_to_week(T, a.player_id, sub.gameweek)
        s1 == Load(SessionAfterFlush(View(r), s), rows)
        total == SumNet(Objects(s1, Ids(rows)))
        rest == Tail(s.todo)
    IN /\ s.pc = "loop"
       /\ MayProceed(r)
       /\ IF ~FlushAccepted(View(r), s)
          THEN Rollback(r)
          ELSE Proceed(r, [s1 EXCEPT
                             !.obj = Put(s1.obj,
                                         [sub EXCEPT !.overall_points = total]),
                             !.todo = rest,
                             !.pc = IF rest = <<>> THEN "commit" ELSE "loop"])

\* create_scores_bulk: the form is read and the players are selected.
TxnBulkBegin(r, a) ==
    LET todo == PlayersToWrite(players, a.form)
    IN /\ sess[r].pc = "idle"
       /\ a.op = "bulk"
       /\ sess' = [sess EXCEPT
                     ![r].pc = IF todo = <<>> THEN "commit" ELSE "existing",
                     ![r].args = a, ![r].todo = todo, ![r].seen = version]
       /\ UNCHANGED <<players, scores, last, lock, txn, version>>

\* create_scores_bulk: existing_score = ... .first() for the next player,
\* after the autoflush of what the previous pass wrote, and the
\* `if existing_score:` branch.
TxnBulkExisting(r) ==
    LET s == sess[r]
        a == s.args
        p == Head(s.todo)
        T == Flushed(View(r), s)
        rows == MatchingScores(T, p, a.gameweek)
        rest == Tail(s.todo)
    IN /\ s.pc = "existing"
       /\ MayProceed(r)
       /\ IF ~FlushAccepted(View(r), s)
          THEN Rollback(r)
          ELSE IF rows = {}
               THEN Proceed(r, [SessionAfterFlush(View(r), s) EXCEPT
                                  !.pc = "create"])
               ELSE \E first \in rows :
                      LET s1 == Load(SessionAfterFlush(View(r), s), {first})
                          existing_score == Get(s1.obj, first.id)
                      IN Proceed(r, [s1 EXCEPT
                                       !.obj = Put(s1.obj,
                                                   OverwriteExisting(
                                                       existing_score,
                                                       a.form[p].week_points[1],
                                                       a.form[p].week_cost[1])),
                                       !.todo = rest,
                                       !.pc = IF rest = <<>> THEN "commit"
                                              ELSE "existing"])

\* create_scores_bulk: the `else:` branch: existing_scores = ... .all() and
\* the new Score, which waits for the next flush.
TxnBulkCreate(r) ==
    LET s == sess[r]
        a == s.args
        p == Head(s.todo)
        T == Flushed(View(r), s)
        rows == existing_scores(T, p)
        s1 == Load(SessionAfterFlush(View(r), s), rows)
        week_points == a.form[p].week_points[1]
        week_cost == a.form[p].week_cost[1]
        total == SumNet(Objects(s1, Ids(rows))) + week_points - week_cost
        rest == Tail(s.todo)
    IN /\ s.pc = "create"
       /\ MayProceed(r)
       /\ IF ~FlushAccepted(View(r), s)
          THEN Rollback(r)
          ELSE Proceed(r, [s1 EXCEPT
                             !.new = {Score(0, p, a.gameweek, week_points,
                                            week_cost, total)},
                             !.todo = rest,
                             !.pc = IF rest = <<>> THEN "commit"
                                    ELSE "existing"])

\* session.commit(): the last flush, then the transaction becomes the
\* committed table.
TxnCommit(r) ==
    LET s == sess[r]
        T == Flushed(View(r), s)
    IN /\ s.pc = "commit"
       /\ MayProceed(r)
       /\ IF ~FlushAccepted(View(r), s)
          THEN Rollback(r)
          ELSE /\ sess' = [sess EXCEPT
                             ![r] = [SessionAfterFlush(View(r), s) EXCEPT
                                       !.pc = "done",
                                       !.raced = version # s.seen]]
               /\ scores' = IF HoldsAfterFlush(r) THEN T ELSE scores
               /\ version' = IF HoldsAfterFlush(r) THEN version + 1
                             ELSE version
               /\ lock' = IF HoldsAfterFlush(r) THEN 0 ELSE lock
               /\ txn' = IF HoldsAfterFlush(r) THEN {} ELSE txn
               /\ UNCHANGED <<players, last>>

\* The write lock stayed with another transaction past the busy timeout:
\* the statement raises "database is locked".
TxnLockTimeout(r) ==
    /\ sess[r].pc \in {"subsequent", "loop", "existing", "create", "commit"}
    /\ NeedsLock(r)
    /\ lock \notin {0, r}
    /\ Rollback(r)

\* The season uploaded for player 1 alone.
TxnStores == {S \in AscendingStores : \A s \in S : s.player_id = 1}

TxnInit ==
    /\ players = PlayerIds
    /\ scores \in TxnStores
    /\ last = Outcome("none", TRUE, <<>>, scores)
    /\ sess = [r \in Requests |-> Idle]
    /\ lock = 0
    /\ txn = {}
    /\ version = 0

UpdateArgs(score_id, player_id, gameweek, week_points, week_cost) ==
    [op |-> "update", score_id |-> score_id, player_id |-> player_id,
     gameweek |-> gameweek, week_points |-> week_points,
     week_cost |-> week_cost]

BulkArgs(gameweek, form) ==
    [op |-> "bulk", gameweek |-> gameweek, form |-> form]

\* The requests in flight.  Request 1 is any update_score within the
\* gameweek range or an upload of one of the season's forms; request 2 is an
\* update_score that changes the points and cost of a stored row.
TxnUpdateArgs(r) ==
    IF r = 1
    THEN {UpdateArgs(id, p, g, points, cost) :
            id \in IdInputs(last.pre), p \in PlayerIds,
            g \in GameweekInputs \ {0},
            points \in PointInputs, cost \in CostInputs}
    ELSE {UpdateArgs(s.id, s.player_id, s.gameweek, points, cost) :
            s \in last.pre, points \in PointInputs, cost \in CostInputs}

TxnBulkArgs(r) ==
    IF r = 1
    THEN {BulkArgs(g, form) : g \in GameweekInputs, form \in SeasonForms}
    ELSE {}

GetStep ==
    \E r \in Requests :
      /\ sess[r].pc = "idle"
      /\ \E a \in TxnUpdateArgs(r) : TxnGet(r, a)
ReadStep == \E r \in Requests : TxnRead(r)
SubsequentStep == \E r \in Requests : TxnSubsequent(r)
LoopStep == \E r \in Requests : TxnLoop(r)
BulkBeginStep ==
    \E r \in Requests :
      /\ sess[r].pc = "idle"
      /\ \E a \in TxnBulkArgs(r) : TxnBulkBegin(r, a)
BulkExistingStep == \E r \in Requests : TxnBulkExisting(r)
BulkCreateStep == \E r \in Requests : TxnBulkCreate(r)
CommitStep == \E r \in Requests : TxnCommit(r)
LockTimeoutStep == \E r \in Requests : TxnLockTimeout(r)

TxnNext ==
    \/ GetStep \/ ReadStep \/ SubsequentStep \/ LoopStep
    \/ BulkBeginStep \/ BulkExistingStep \/ BulkCreateStep
    \/ CommitStep \/ LockTimeoutStep

SpecTxn == TxnInit /\ [][TxnNext]_vars

----------------------------------------------------------------------------
(* Properties of the store served one request at a time *)

\* The sum of (week_points - week_cost) over the rows of S that belong to
\* player_id and lie at or before gameweek.
RunningTotal(S, player_id, gameweek) ==
    SumNet({x \in S : x.player_id = player_id /\ x.gameweek <= gameweek})

RunningTotalHolds(S) ==
    \A r \in S : r.overall_points = RunningTotal(S, r.player_id, r.gameweek)

Unique(S) ==
    \A r, s \in S :
        (r.player_id = s.player_id /\ r.gameweek = s.gameweek) => r.id = s.id

RowsOf(S, player_id) == {x \in S : x.player_id = player_id}

\* The season's uploads, when made in gameweek order, leave every running
\* total right; in either order they leave no two rows on one
\* (player, gameweek).
SeasonConsistent ==
    last.op = "none" =>
        /\ Unique(scores)
        /\ scores \in AscendingStores => RunningTotalHolds(scores)

\* C1: after a score edit (update_score, a change of gameweek or player_id
\* included) applied to scores created through the bulk upload, every row's
\* overall_points is the sum of (week_points - week_cost) over its player's
\* rows with gameweek <= its own.
C1_RunningTotalAfterEdits ==
    (last.op = "update" /\ last.ok /\ RunningTotalHolds(last.pre))
        => RunningTotalHolds(scores)

\* C2: after update_score(id, p, g, points, cost) commits, the edited row's
\* overall_points is (points - cost) plus the sum over p's other rows with
\* gameweek <= g, and every row of p with a later gameweek carries the sum
\* over all of p's rows (the edited one included) up to its own gameweek.
\* The example of the specification is part of the statement: gw1 (50,0) and
\* gw2 (40,5), editing gw1 to 60 points gives 60 and 95.
C2_CascadeCorrect ==
    /\ (last.op = "update" /\ last.ok) =>
          LET a == last.args
              e == Get(scores, a.score_id)
          IN /\ e.player_id = a.player_id /\ e.gameweek = a.gameweek
             /\ e.week_points = a.week_points /\ e.week_cost = a.week_cost
             /\ e.overall_points =
                   (a.week_points - a.week_cost)
                     + SumNet({x \in scores : /\ x.player_id = a.player_id
                                              /\ x.gameweek <= a.gameweek
                                              /\ x.id # a.score_id})
             /\ \A s \in scores :
                   (s.player_id = a.player_id /\ s.gameweek > a.gameweek) =>
                       s.overall_points =
                           RunningTotal(scores, a.player_id, s.gameweek)
    /\ LET S0 == {Score(1, 1, 1, 50, 0, 50), Score(2, 1, 2, 40, 5, 85)}
           T0 == UpdateScoreResult(S0, 1, 1, 1, 60, 0)
       IN Get(T0, 1).overall_points = 60 /\ Get(T0, 2).overall_points = 95

\* An accepted edit of points or cost whose row has a later row of the same
\* player behind it: the later row's total changed with the edit.
C2_Witness ==
    /\ last.op = "update" /\ last.ok
    /\ \E s \in scores :
          /\ s.id # last.args.score_id
          /\ s.player_id = last.args.player_id
          /\ s.gameweek > last.args.gameweek
          /\ s.overall_points # Get(last.pre, s.id).overall_points

\* C3: a row the bulk upload creates for player p and gameweek g carries
\* (week_points - week_cost) plus the sum over p's already stored rows with
\* gameweek <= g, whatever other gameweeks p has, later ones included.
C3_BulkSeeding ==
    (last.op = "bulk" /\ last.ok) =>
        \A r \in scores :
            r.id \notin Ids(last.pre) =>
                r.overall_points =
                    (r.week_points - r.week_cost)
                      + SumNet({x \in last.pre : /\ x.player_id = r.player_id
                                                 /\ x.gameweek <= r.gameweek})

\* C4: there is at most one row per (player_id, gameweek).
C4_Uniqueness == Unique(scores)

\* C5: update_score(id, p, g, points, cost) leaves every field of every row
\* that is neither the edited row nor a row of player p as it was, the rows
\* left with the edited row's previous owner included, and leaves the
\* players table as it was.
C5_Isolation ==
    last.op = "update" =>
        /\ Ids(scores) = Ids(last.pre)
        /\ \A s \in last.pre :
              (s.id # last.args.score_id /\ s.player_id # last.args.player_id)
                  => s \in scores
        /\ players = PlayerIds

\* An accepted edit moved a row to another player; its previous owner keeps
\* a later row, whose total still counts the row that left.
C5_Witness ==
    /\ last.op = "update" /\ last.ok
    /\ \E s \in scores :
          LET old == Get(last.pre, last.args.score_id)
          IN /\ old.player_id # last.args.player_id
             /\ s.player_id = old.player_id
             /\ s.gameweek > old.gameweek
             /\ old.week_points - old.week_cost # 0
             /\ s.overall_points = RunningTotal(last.pre, s.player_id, s.gameweek)

\* C7: applying update_score a second time with the same arguments leaves
\* the table the first application left.
C7_Idempotent ==
    last.op = "update" =>
        UpdateScoreResult(scores, last.args.score_id, last.args.player_id,
                          last.args.gameweek, last.args.week_points,
                          last.args.week_cost) = scores

\* An accepted edit changed the points or cost of a row that has an earlier
\* and a later row of the same player around it.
C7_Witness ==
    /\ last.op = "update" /\ last.ok
    /\ \E o \in scores, s \in scores :
          LET e == Get(scores, last.args.score_id)
              old == Get(last.pre, last.args.score_id)
          IN /\ o.id # e.id /\ s.id # e.id
             /\ o.player_id = e.player_id /\ s.player_id = e.player_id
             /\ o.gameweek <= e.gameweek /\ s.gameweek > e.gameweek
             /\ o.week_points - o.week_cost # 0
             /\ old.week_points - old.week_cost
                    # e.week_points - e.week_cost

\* C8: delete_score(id) on a stored id removes that one row and changes no
\* field of any other row; on an absent id it fails and changes nothing.
C8_DeleteFrame ==
    last.op = "delete" =>
        IF \E s \in last.pre : s.id = last.args.score_id
        THEN /\ last.ok
             /\ Cardinality(scores) = Cardinality(last.pre) - 1
             /\ \A s \in last.pre : s.id # last.args.score_id => s \in scores
             /\ \A s \in scores : s \in last.pre /\ s.id # last.args.score_id
        ELSE ~last.ok /\ scores = last.pre

\* A row was deleted and a later row of the same player still carries the
\* total that counted it.
C8_Witness ==
    /\ last.op = "delete" /\ last.ok
    /\ \E s \in scores :
          LET gone == Get(last.pre, last.args.score_id)
          IN /\ s.player_id = gone.player_id
             /\ s.gameweek > gone.gameweek
             /\ gone.week_points - gone.week_cost # 0
             /\ s.overall_points # RunningTotal(scores, s.player_id, s.gameweek)

\* C9: when the bulk upload finds a row for (player, g) it overwrites that
\* row's week_points and week_cost and nothing else: its overall_points,
\* gameweek and player_id and the player's other rows stay, and no row is
\* created for the player; a player whose points or cost field is missing or
\* empty gets no row created or changed.
C9_BulkOverwrite ==
    (last.op = "bulk" /\ last.ok) =>
        LET g == last.args.gameweek
            form == last.args.form
        IN \A p \in players :
             IF form[p].week_points = <<>> \/ form[p].week_cost = <<>>
             THEN RowsOf(scores, p) = RowsOf(last.pre, p)
             ELSE (\E x \in last.pre : x.player_id = p /\ x.gameweek = g) =>
                    \E e \in last.pre :
                      /\ e.player_id = p /\ e.gameweek = g
                      /\ RowsOf(scores, p) =
                           (RowsOf(last.pre, p) \ {e}) \cup
                             {[e EXCEPT
                                 !.week_points = form[p].week_points[1],
                                 !.week_cost = form[p].week_cost[1]]}

\* An upload overwrote the points or cost of a row that has a later row of
\* the same player, and skipped a player who sent only one of the fields.
C9_Witness ==
    /\ last.op = "bulk" /\ last.ok
    /\ \E e \in last.pre, s \in last.pre, q \in players :
          /\ e.gameweek = last.args.gameweek
          /\ s.player_id = e.player_id /\ s.gameweek > e.gameweek
          /\ last.args.first[e.player_id] = e.id
          /\ Get(scores, e.id).week_points # e.week_points
          /\ q # e.player_id
          /\ last.args.form[q].week_points # <<>>
          /\ last.args.form[q].week_cost = <<>>
          /\ RowsOf(last.pre, q) # {}

----------------------------------------------------------------------------
(* Properties of the requests run statement by statement *)

Failing(r) == sess[r].pc # "failed" /\ sess'[r].pc = "failed"
Committing(r) == sess[r].pc = "commit" /\ sess'[r].pc = "done"

\* C6: a request (update_score or the bulk upload) that fails, a check
\* constraint rejecting one of its rows included, changes no stored row; the
\* store changes only in the step that commits a request, and that step
\* publishes every row the request wrote, the edited row, the later rows it
\* recalculated and the rows of every entry of the batch, as the request's
\* transaction held them, and no other change.
C6_AllOrNothing ==
    [][/\ \A r \in Requests : Failing(r) => scores' = scores
       /\ scores' # scores => \E r \in Requests : Committing(r)
       /\ \A r \in Requests :
            Committing(r) =>
              /\ Ids(scores) \subseteq Ids(scores')
              /\ sess'[r].wrote \subseteq Ids(scores')
              /\ \A x \in scores' :
                   IF x.id \in sess'[r].wrote
                   THEN x \in Flushed(View(r), sess[r])
                   ELSE x \in scores]_vars

\* A request failed on a check constraint after it had flushed other rows,
\* while no other request had started: an edit whose later row's total went
\* negative, or an upload whose second entry was rejected after the first
\* was written; the store is as it was.
C6_Witness ==
    \E r \in Requests :
      /\ sess[r].pc = "failed"
      /\ sess[r].wrote # {}
      /\ \A q \in Requests \ {r} : sess[q].pc = "idle"
      /\ scores = last.pre

Finished(r) == sess[r].pc \in {"done", "failed"}

\* Two update_score requests on two different stored scores of one player,
\* neither moving its row to another player or gameweek.
TwoEditsOfOnePlayer ==
    /\ \A r \in Requests :
         /\ sess[r].args.op = "update"
         /\ sess[r].args.score_id \in Ids(last.pre)
         /\ LET row == Get(last.pre, sess[r].args.score_id)
            IN /\ sess[r].args.player_id = row.player_id
               /\ sess[r].args.gameweek = row.gameweek
    /\ sess[1].args.score_id # sess[2].args.score_id
    /\ sess[1].args.player_id = sess[2].args.player_id

\* The store after request `first` and then request `second`, each run
\* alone.
Serial(first, second) ==
    LET a == sess[first].args
        b == sess[second].args
    IN UpdateScoreResult(
           UpdateScoreResult(last.pre, a.score_id, a.player_id, a.gameweek,
                             a.week_points, a.week_cost),
           b.score_id, b.player_id, b.gameweek, b.week_points, b.week_cost)

\* C10: for two update_score requests on different scores of the same
\* player, started on a store where the running totals hold, either serial
\* order leaves the running totals holding; once both have finished, the
\* running totals can fail only if the requests overlapped (one committed
\* between the other's first read and its end).
C10_LostUpdateRace ==
    (TwoEditsOfOnePlayer /\ Finished(1) /\ Finished(2)
        /\ RunningTotalHolds(last.pre) /\ Unique(last.pre)) =>
        /\ RunningTotalHolds(Serial(1, 2))
        /\ RunningTotalHolds(Serial(2, 1))
        /\ ~RunningTotalHolds(scores) => (sess[1].raced \/ sess[2].raced)

\* Both requests committed, either serial order would have kept the running
\* totals, and the stored totals are wrong: the interleaving lost an update.
C10_Witness ==
    /\ TwoEditsOfOnePlayer
    /\ sess[1].pc = "done" /\ sess[2].pc = "done"
    /\ RunningTotalHolds(last.pre) /\ Unique(last.pre)
    /\ RunningTotalHolds(Serial(1, 2))
    /\ RunningTotalHolds(Serial(2, 1))
    /\ ~RunningTotalHolds(scores)

====
